---- MODULE Spec2Model ----
(***************************************************************************)
(* The recording-session state machine of the ScreenRecorder component     *)
(* (src/src/components/ScreenRecorder.tsx).                                *)
(*                                                                         *)
(* Every action is one handler of the component together with the render   *)
(* that React performs for the state it set (state updates made in one     *)
(* handler are applied together).  The callbacks the component hands to    *)
(* the platform are closures: startRecording is memoised on recordingTime  *)
(* and closes over the recordingTime and the stopRecording of the render   *)
(* that created it, so the values a session sees are the captured ones,    *)
(* not the current ones.  Each call of startRecording is an attempt with   *)
(* its own id; the two awaits of the attempt are separate steps.           *)
(*                                                                         *)
(* The platform is the environment: it answers the two permission          *)
(* requests, delivers dataavailable events, runs the stop task of a        *)
(* stopped recorder (the last dataavailable, then onstop) at some later    *)
(* point, and may make new Blob / URL.createObjectURL throw.  The user     *)
(* ending the capture from the browser's own "stop sharing" control is     *)
(* not part of the model.                                                  *)
(***************************************************************************)
EXTENDS Integers, Sequences, FiniteSets, TLC

\* ---------------------------------------------------------------- bounds
\* number of startRecording calls in a behaviour
MaxSessions == 2
\* periodic dataavailable events per recorder (the final flush is extra)
MaxDataEvents == 1
\* a delivered chunk has 0..MaxChunkSize bytes
MaxChunkSize == 1
\* explicit stop calls made while nothing is recording, per behaviour
MaxIdleStops == 1

\* ------------------------------------------------------ program constants
\* `prev >= 179` in the interval callback
CapThreshold == 179
\* `return 180` in the interval callback
CapValue == 180
\* the documented limit of a recording, in seconds ("/ 03:00")
MaxDuration == 180

\* the values of the elapsed counter at which the user and the platform act
\* (clicks, permission answers, recorder events); the timer fires at every value
EventTimes == {0, 1, 5, 10, 179, 180}

Sessions == 1..MaxSessions
ChunkSizes == 0..MaxChunkSize

\* the Recording interface; `session` is the identity of the object
\* (which call of startRecording built it)
Recording(s, d, sz) == [session |-> s, duration |-> d, size |-> sz]
\* useState<Recording | null>(null)
NoRecording == Recording(0, 0, 0)

VARIABLES
  isRecording,        \* useState(false)
  recordingTime,      \* useState(0)
  currentRecording,   \* useState<Recording | null>(null)
  recordings,         \* useState<Recording[]>([])
  mediaRecorderRef,   \* useRef: 0 is null, else the attempt whose recorder it holds
  streamRef,          \* useRef: 0 is null, else the attempt whose combined stream it holds
  chunksRef,          \* useRef<Blob[]>: sequence of [sess, size]
  timerRef,           \* useRef: 0 is null, else the attempt whose interval id it holds
  memoStopIsRec,      \* isRecording as seen by the stopRecording that the memoised startRecording closes over
  phase,              \* per attempt: "unused", "display", "audio", "started", "failed"
  capturedTime,       \* per attempt: recordingTime closed over by its startRecording
  capturedStopIsRec,  \* per attempt: isRecording closed over by the stopRecording its timer calls
  recorder,           \* per attempt: MediaRecorder.state, "none" before construction
  flush,              \* per attempt: stop task of its recorder: "none", "pending", "done", "failed"
  displayLive,        \* per attempt: its display video track is live
  audioLive,          \* per attempt: its microphone track is live
  trackStops,         \* per attempt: number of times its tracks were stopped
  interval,           \* per attempt: the interval it created is still scheduled
  delivered,          \* per attempt: total size of the chunks its recorder delivered
  dataEvents,         \* per attempt: periodic dataavailable events so far
  stoppedAt,          \* per attempt: recordingTime when its recorder was stopped, -1 before
  toast,              \* the last notification shown
  fault,              \* the last exception that left a handler uncaught
  idleStops,          \* for each stopRecording call made while isRecording was false, the mediaRecorderRef it saw
  pendingStops,       \* the attempts noted as awaiting a permission answer when such a call was made
  downloadTs,         \* recording.timestamp of the recording downloadRecording was called with (UTC fields)
  downloadName,       \* a.download as set by downloadRecording, a sequence of characters; <<>> before
  mounted             \* the component is mounted

vars == <<isRecording, recordingTime, currentRecording, recordings,
          mediaRecorderRef, streamRef, chunksRef, timerRef, memoStopIsRec,
          phase, capturedTime, capturedStopIsRec, recorder, flush,
          displayLive, audioLive, trackStops, interval, delivered,
          dataEvents, stoppedAt, toast, fault, idleStops, pendingStops,
          downloadTs, downloadName, mounted>>

\* what no handler of a recording session touches
aux == <<downloadTs, downloadName, mounted>>

reactState == <<isRecording, recordingTime, currentRecording, recordings>>
refs == <<mediaRecorderRef, streamRef, chunksRef, timerRef>>
tracks == <<displayLive, audioLive, trackStops>>

\* the state and refs of a freshly mounted component
SessionInit ==
  /\ isRecording = FALSE
  /\ recordingTime = 0
  /\ currentRecording = NoRecording
  /\ recordings = <<>>
  /\ mediaRecorderRef = 0
  /\ streamRef = 0
  /\ chunksRef = <<>>
  /\ timerRef = 0
  /\ memoStopIsRec = FALSE
  /\ phase = [s \in Sessions |-> "unused"]
  /\ capturedTime = [s \in Sessions |-> 0]
  /\ capturedStopIsRec = [s \in Sessions |-> FALSE]
  /\ recorder = [s \in Sessions |-> "none"]
  /\ flush = [s \in Sessions |-> "none"]
  /\ displayLive = [s \in Sessions |-> FALSE]
  /\ audioLive = [s \in Sessions |-> FALSE]
  /\ trackStops = [s \in Sessions |-> 0]
  /\ interval = [s \in Sessions |-> FALSE]
  /\ delivered = [s \in Sessions |-> 0]
  /\ dataEvents = [s \in Sessions |-> 0]
  /\ stoppedAt = [s \in Sessions |-> -1]
  /\ toast = "none"
  /\ fault = "none"
  /\ idleStops = <<>>
  /\ pendingStops = {}
  /\ mounted = TRUE

\* no timestamp: downloadRecording has not been called
NoDate == [year |-> 0, month |-> 0, day |-> 0, hour |-> 0, minute |-> 0, second |-> 0, ms |-> 0]

Init ==
  /\ SessionInit
  /\ downloadTs = NoDate
  /\ downloadName = <<>>

\* ------------------------------------------------------------- helpers
RECURSIVE SumSizes(_)
\* Blob.size of new Blob(chunks): the sizes of the parts added up
SumSizes(chunks) ==
  IF chunks = <<>> THEN 0 ELSE Head(chunks).size + SumSizes(Tail(chunks))

\* useCallback(..., [recordingTime, toast]): startRecording is rebuilt by the
\* render in which recordingTime changed and then closes over that render's
\* stopRecording, whose isRecording is that render's (useCallback [isRecording])
MemoAfterRender(newTime, newIsRec) ==
  IF newTime # recordingTime THEN newIsRec ELSE memoStopIsRec

\* the attempt id the next call of startRecording gets
NextAttempt == CHOOSE s \in Sessions : phase[s] = "unused" /\ \A r \in Sessions : r < s => phase[r] # "unused"

\* the user or the platform acts now
AtEventTime == recordingTime \in EventTimes

\* the Start button is rendered only while isRecording is false
StartButtonShown == ~isRecording

\* ---------------------------------------------------------- startRecording
\* onClick={startRecording}: the memoised callback runs up to its first await
StartClick ==
  /\ AtEventTime
  /\ StartButtonShown
  /\ \E s \in Sessions : phase[s] = "unused"
  /\ phase' = [phase EXCEPT ![NextAttempt] = "display"]
  /\ capturedTime' = [capturedTime EXCEPT ![NextAttempt] = recordingTime]
  /\ capturedStopIsRec' = [capturedStopIsRec EXCEPT ![NextAttempt] = memoStopIsRec]
  /\ UNCHANGED <<reactState, refs, memoStopIsRec, recorder, flush, tracks,
                 interval, delivered, dataEvents, stoppedAt, toast, fault, idleStops, pendingStops, aux>>

\* the toast of the catch block of startRecording
StartFailedToast == "failed"

\* the catch block of startRecording: log, toast, nothing else
CatchStart(s) ==
  /\ phase' = [phase EXCEPT ![s] = "failed"]
  /\ toast' = StartFailedToast

\* await getDisplayMedia(...) resolves with a stream of one live video track
GetDisplayMediaResolved(s) ==
  /\ AtEventTime
  /\ phase[s] = "display"
  /\ phase' = [phase EXCEPT ![s] = "audio"]
  /\ displayLive' = [displayLive EXCEPT ![s] = TRUE]
  /\ UNCHANGED <<reactState, refs, memoStopIsRec, capturedTime, capturedStopIsRec,
                 recorder, flush, audioLive, trackStops, interval, delivered,
                 dataEvents, stoppedAt, toast, fault, idleStops, pendingStops, aux>>

\* await getDisplayMedia(...) rejects (denied, picker cancelled)
GetDisplayMediaRejected(s) ==
  /\ AtEventTime
  /\ phase[s] = "display"
  /\ CatchStart(s)
  /\ UNCHANGED <<reactState, refs, memoStopIsRec, capturedTime, capturedStopIsRec,
                 recorder, flush, tracks, interval, delivered, dataEvents,
                 stoppedAt, fault, idleStops, pendingStops, aux>>

\* GetUserMediaRejected swallowing the rejection and recording without audio
GetUserMediaRejectedIgnored(s) ==
  /\ AtEventTime
  /\ phase[s] = "audio"
  /\ streamRef' = s
  /\ chunksRef' = <<>>
  /\ mediaRecorderRef' = s
  /\ recorder' = [recorder EXCEPT ![s] = "recording"]
  /\ isRecording' = TRUE
  /\ recordingTime' = 0
  /\ timerRef' = s
  /\ interval' = [interval EXCEPT ![s] = TRUE]
  /\ toast' = "started"
  /\ phase' = [phase EXCEPT ![s] = "started"]
  /\ memoStopIsRec' = IF recordingTime # 0 THEN TRUE ELSE memoStopIsRec
  /\ UNCHANGED <<currentRecording, recordings, capturedTime, capturedStopIsRec,
                 flush, tracks, delivered, dataEvents, stoppedAt, fault, idleStops, pendingStops, aux>>

\* await getUserMedia(...) rejects after the display stream was granted
GetUserMediaRejected(s) ==
  /\ AtEventTime
  /\ phase[s] = "audio"
  /\ CatchStart(s)
  /\ UNCHANGED <<reactState, refs, memoStopIsRec, capturedTime, capturedStopIsRec,
                 recorder, flush, tracks, interval, delivered, dataEvents,
                 stoppedAt, fault, idleStops, pendingStops, aux>>

\* await getUserMedia(...) resolves; the rest of startRecording runs in one go.
\* ctorOk: new MediaRecorder(stream, {mimeType}) does not throw (it throws
\* NotSupportedError where the vp9 mimeType is not supported)
GetUserMediaResolved(s, ctorOk) ==
  /\ AtEventTime
  /\ phase[s] = "audio"
  /\ audioLive' = [audioLive EXCEPT ![s] = TRUE]
  /\ streamRef' = s
  /\ chunksRef' = <<>>
  /\ IF ctorOk
     THEN /\ mediaRecorderRef' = s
          /\ recorder' = [recorder EXCEPT ![s] = "recording"]
          /\ isRecording' = TRUE
          /\ recordingTime' = 0
          /\ timerRef' = s
          /\ interval' = [interval EXCEPT ![s] = TRUE]
          /\ toast' = "started"
          /\ phase' = [phase EXCEPT ![s] = "started"]
          /\ memoStopIsRec' = MemoAfterRender(0, TRUE)
     ELSE /\ CatchStart(s)
          /\ UNCHANGED <<mediaRecorderRef, recorder, isRecording, recordingTime,
                         timerRef, interval, memoStopIsRec>>
  /\ UNCHANGED <<currentRecording, recordings, capturedTime, capturedStopIsRec,
                 flush, displayLive, trackStops, delivered, dataEvents,
                 stoppedAt, fault, idleStops, pendingStops, aux>>

\* ------------------------------------------------------------ stopRecording
\* StopGuard without the isRecording test
StopGuardRefOnly(isRec) == mediaRecorderRef # 0

\* if (mediaRecorderRef.current && isRecording), isRec being the closure's isRecording
StopGuard(isRec) == mediaRecorderRef # 0 /\ isRec

\* MediaRecorder.stop() on a recorder that is already inactive raises
\* InvalidStateError on some platforms and returns silently on others
StopThrows(isRec, throws) ==
  StopGuard(isRec) /\ recorder[mediaRecorderRef] # "recording" /\ throws

\* stopTimer(): clears the interval timerRef holds, if any
StopTimer ==
  /\ interval' = IF timerRef # 0 THEN [interval EXCEPT ![timerRef] = FALSE] ELSE interval
  /\ timerRef' = 0

\* the body of stopRecording as run by a closure that saw isRecording = isRec
StopRecordingCall(isRec, throws) ==
  IF ~StopGuard(isRec)
  THEN UNCHANGED <<recorder, flush, stoppedAt, isRecording, interval, timerRef, toast, fault>>
  ELSE IF StopThrows(isRec, throws)
  THEN /\ fault' = "InvalidStateError"
       /\ UNCHANGED <<recorder, flush, stoppedAt, isRecording, interval, timerRef, toast>>
  ELSE /\ IF recorder[mediaRecorderRef] = "recording"
          THEN /\ recorder' = [recorder EXCEPT ![mediaRecorderRef] = "inactive"]
               /\ flush' = [flush EXCEPT ![mediaRecorderRef] = "pending"]
               /\ stoppedAt' = [stoppedAt EXCEPT ![mediaRecorderRef] = recordingTime]
          ELSE UNCHANGED <<recorder, flush, stoppedAt>>
       /\ isRecording' = FALSE
       /\ StopTimer
       /\ toast' = "stopped"
       /\ fault' = fault

\* the attempts that await a permission answer
PendingAttempts == {s \in Sessions : phase[s] \in {"display", "audio"}}

\* StopRecordingNoting giving up the attempts that await a permission answer
StopRecordingCancelling(noted) ==
  /\ AtEventTime
  /\ isRecording \/ Len(idleStops) < MaxIdleStops
  /\ \E throws \in BOOLEAN : StopRecordingCall(isRecording, throws)
  /\ idleStops' = IF isRecording THEN idleStops ELSE Append(idleStops, mediaRecorderRef)
  /\ pendingStops' = pendingStops \cup noted
  /\ phase' = [s \in Sessions |-> IF s \in PendingAttempts THEN "failed" ELSE phase[s]]
  /\ UNCHANGED aux
  /\ UNCHANGED <<recordingTime, currentRecording, recordings, mediaRecorderRef,
                 streamRef, chunksRef, memoStopIsRec, capturedTime,
                 capturedStopIsRec, tracks, delivered, dataEvents>>

\* stopRecording of the current render is called; `noted` are the attempts
\* noted as having seen the call while they awaited a permission answer
StopRecordingNoting(noted) ==
  /\ AtEventTime
  /\ isRecording \/ Len(idleStops) < MaxIdleStops
  /\ \E throws \in BOOLEAN : StopRecordingCall(isRecording, throws)
  /\ idleStops' = IF isRecording THEN idleStops ELSE Append(idleStops, mediaRecorderRef)
  /\ pendingStops' = pendingStops \cup noted
  /\ UNCHANGED aux
  /\ UNCHANGED <<recordingTime, currentRecording, recordings, mediaRecorderRef,
                 streamRef, chunksRef, memoStopIsRec, phase, capturedTime,
                 capturedStopIsRec, tracks, delivered, dataEvents>>

\* stopRecording of the current render is called (the Stop button, or a call
\* made while nothing is recording)
StopRecording == StopRecordingNoting({})

\* stopRecording is called while nothing is recording and an attempt awaits a
\* permission answer
StopWhilePending ==
  /\ ~isRecording
  /\ PendingAttempts # {}
  /\ StopRecordingNoting(PendingAttempts)

\* ------------------------------------------------------------------ timer
\* NextTime with the cap left out
NextTimeUncapped(prev) == prev + 1

\* the updater of setRecordingTime, when the stopRecording it calls returns
NextTime(prev) == IF prev >= CapThreshold THEN CapValue ELSE prev + 1

\* one firing of the interval created by attempt s
Tick(s) ==
  /\ interval[s]
  /\ IF recordingTime >= CapThreshold
     THEN \E throws \in BOOLEAN :
            /\ StopRecordingCall(capturedStopIsRec[s], throws)
            /\ recordingTime' = IF StopThrows(capturedStopIsRec[s], throws)
                                THEN recordingTime ELSE NextTime(recordingTime)
     ELSE /\ recordingTime' = NextTime(recordingTime)
          /\ UNCHANGED <<recorder, flush, stoppedAt, isRecording, interval, timerRef, toast, fault>>
  /\ memoStopIsRec' = MemoAfterRender(recordingTime', isRecording')
  /\ UNCHANGED <<currentRecording, recordings, mediaRecorderRef, streamRef, chunksRef,
                 phase, capturedTime, capturedStopIsRec, tracks, delivered,
                 dataEvents, idleStops, pendingStops, aux>>

\* ------------------------------------------------------- recorder events
\* chunksRef.current after ondataavailable of attempt s got a blob of `size` bytes
PushChunk(s, size) ==
  IF size > 0 THEN Append(chunksRef, [sess |-> s, size |-> size]) ELSE chunksRef

\* a periodic dataavailable event (start(1000)) of the recorder of attempt s
DataAvailable(s, size) ==
  /\ AtEventTime
  /\ recorder[s] = "recording"
  /\ dataEvents[s] < MaxDataEvents
  /\ chunksRef' = PushChunk(s, size)
  /\ delivered' = [delivered EXCEPT ![s] = @ + size]
  /\ dataEvents' = [dataEvents EXCEPT ![s] = @ + 1]
  /\ UNCHANGED <<reactState, mediaRecorderRef, streamRef, timerRef, memoStopIsRec,
                 phase, capturedTime, capturedStopIsRec, recorder, flush, tracks,
                 interval, stoppedAt, toast, fault, idleStops, pendingStops, aux>>

\* Prepend forgetting the earlier entries
ReplaceHistory(rec, prev) == <<rec>>

\* Prepend adding at the end instead
AppendLast(rec, prev) == Append(prev, rec)

\* setRecordings(prev => [recording, ...prev])
Prepend(rec, prev) == <<rec>> \o prev

\* streamRef.current?.getTracks().forEach(track => track.stop()); streamRef.current = null
ReleaseStream ==
  /\ displayLive' = IF streamRef # 0 THEN [displayLive EXCEPT ![streamRef] = FALSE] ELSE displayLive
  /\ audioLive' = IF streamRef # 0 THEN [audioLive EXCEPT ![streamRef] = FALSE] ELSE audioLive
  /\ trackStops' = IF streamRef # 0 THEN [trackStops EXCEPT ![streamRef] = @ + 1] ELSE trackStops
  /\ streamRef' = 0

\* the stop task of the recorder of attempt s: the last dataavailable (of
\* `size` bytes), then onstop.  ok: new Blob and URL.createObjectURL do not throw
OnStop(s, size, ok) ==
  /\ AtEventTime
  /\ flush[s] = "pending"
  /\ chunksRef' = PushChunk(s, size)
  /\ delivered' = [delivered EXCEPT ![s] = @ + size]
  /\ IF ok
     THEN /\ currentRecording' = Recording(s, capturedTime[s], SumSizes(chunksRef'))
          /\ recordings' = Prepend(currentRecording', recordings)
          /\ ReleaseStream
          /\ flush' = [flush EXCEPT ![s] = "done"]
          /\ fault' = fault
     ELSE /\ flush' = [flush EXCEPT ![s] = "failed"]
          /\ fault' = "finalize"
          /\ UNCHANGED <<currentRecording, recordings, streamRef, tracks>>
  /\ UNCHANGED <<isRecording, recordingTime, mediaRecorderRef, timerRef, memoStopIsRec,
                 phase, capturedTime, capturedStopIsRec, recorder, interval,
                 dataEvents, stoppedAt, toast, idleStops, pendingStops, aux>>

\* ------------------------------------------------------------ specification
Next ==
  \/ StartClick
  \/ \E s \in Sessions : GetDisplayMediaResolved(s)
  \/ \E s \in Sessions : GetDisplayMediaRejected(s)
  \/ \E s \in Sessions : GetUserMediaRejected(s)
  \/ \E s \in Sessions, ctorOk \in BOOLEAN : GetUserMediaResolved(s, ctorOk)
  \/ StopRecording
  \/ \E s \in Sessions : Tick(s)
  \/ \E s \in Sessions, size \in ChunkSizes : DataAvailable(s, size)
  \/ \E s \in Sessions, size \in ChunkSizes, ok \in BOOLEAN : OnStop(s, size, ok)

Spec == Init /\ [][Next]_vars

\* setInterval keeps firing a scheduled interval, and the platform runs the
\* stop task it queued for a stopped recorder
FairSpec ==
  /\ Spec
  /\ \A s \in Sessions : WF_vars(Tick(s))
  /\ \A s \in Sessions : WF_vars(\E size \in ChunkSizes, ok \in BOOLEAN : OnStop(s, size, ok))

\* the handlers of Next, the calls of stopRecording made while an attempt
\* awaits a permission answer being noted in pendingStops
PendingStopNext ==
  \/ Next
  \/ StopWhilePending

PendingStopSpec == Init /\ [][PendingStopNext]_vars

\* ---------------------------------------------------------- downloadRecording
\* Strings are sequences of one-character strings.
\* the timestamps a downloaded recording is drawn from: recording.timestamp is
\* new Date() at finalization, here as its UTC fields (years of four digits)
Timestamps ==
  [year : {1970, 2025, 9999}, month : {1, 2, 12}, day : {1, 2, 28},
   hour : {0, 3, 23}, minute : {0, 4, 59}, second : {0, 5, 59}, ms : {0, 7, 999}]

DigitChars == <<"0", "1", "2", "3", "4", "5", "6", "7", "8", "9">>

RECURSIVE Pow10(_)
Pow10(k) == IF k = 0 THEN 1 ELSE 10 * Pow10(k - 1)

\* n written in decimal with leading zeros, `width` characters
ToDigits(n, width) ==
  [i \in 1..width |-> DigitChars[((n \div Pow10(width - i)) % 10) + 1]]

\* the year of Date.prototype.toISOString: four digits for 0..9999, a sign and
\* six digits otherwise
YearChars(y) ==
  IF y \in 0..9999 THEN ToDigits(y, 4)
  ELSE <<IF y < 0 THEN "-" ELSE "+">> \o ToDigits(IF y < 0 THEN -y ELSE y, 6)

\* Date.prototype.toISOString(): YYYY-MM-DDTHH:mm:ss.sssZ
ToISOString(ts) ==
  YearChars(ts.year) \o <<"-">> \o ToDigits(ts.month, 2) \o <<"-">> \o ToDigits(ts.day, 2)
    \o <<"T">> \o ToDigits(ts.hour, 2) \o <<":">> \o ToDigits(ts.minute, 2)
    \o <<":">> \o ToDigits(ts.second, 2) \o <<".">> \o ToDigits(ts.ms, 3) \o <<"Z">>

\* String.prototype.slice(from, to) for 0 <= from <= to
Slice(str, from, to) ==
  SubSeq(str, from + 1, IF to > Len(str) THEN Len(str) ELSE to)

\* "screen-recording-"
NamePrefix == <<"s", "c", "r", "e", "e", "n", "-", "r", "e", "c", "o", "r", "d", "i", "n", "g", "-">>
\* ".webm"
NameSuffix == <<".", "w", "e", "b", "m">>

\* DownloadName keeping the milliseconds: slice(0, 23)
DownloadNameWithMillis(ts) == NamePrefix \o Slice(ToISOString(ts), 0, 23) \o NameSuffix

\* `screen-recording-${recording.timestamp.toISOString().slice(0, 19)}.webm`
DownloadName(ts) == NamePrefix \o Slice(ToISOString(ts), 0, 19) \o NameSuffix

\* downloadRecording(recording): the anchor gets the name and is clicked
DownloadRecording ==
  /\ mounted
  /\ downloadTs # NoDate
  /\ downloadName' = DownloadName(downloadTs)
  /\ toast' = "download"
  /\ UNCHANGED <<reactState, refs, memoStopIsRec, phase, capturedTime, capturedStopIsRec,
                 recorder, flush, tracks, interval, delivered, dataEvents, stoppedAt,
                 fault, idleStops, pendingStops, downloadTs, mounted>>

\* a mounted component showing a recording with any of the timestamps
DownloadInit ==
  /\ SessionInit
  /\ downloadTs \in Timestamps
  /\ downloadName = <<>>

DownloadNext == DownloadRecording

\* the Download button of one recording, pressed any number of times
DownloadSpec == DownloadInit /\ [][DownloadNext]_vars

\* ------------------------------------------------------------------ teardown
\* the object URLs made by URL.createObjectURL in onstop, named by the attempt
\* they belong to.  The component never calls URL.revokeObjectURL, so every
\* URL it made stays valid
ObjectUrls == {recordings[i].session : i \in 1..Len(recordings)}

\* React unmounts the component.  It registers no effect, hence no cleanup
\* runs: state and refs are dropped as they are, and what they referred to
\* (intervals, tracks, recorders, object URLs) is left as it is
Unmount ==
  /\ AtEventTime
  /\ mounted
  /\ mounted' = FALSE
  /\ UNCHANGED <<reactState, refs, memoStopIsRec, phase, capturedTime, capturedStopIsRec,
                 recorder, flush, tracks, interval, delivered, dataEvents, stoppedAt,
                 toast, fault, idleStops, pendingStops, downloadTs, downloadName>>

\* the component is used, then unmounted; what happens after the unmount is
\* not followed
TeardownNext ==
  \/ mounted /\ Next
  \/ Unmount

TeardownSpec == Init /\ [][TeardownNext]_vars

\* ------------------------------------------------------------------ claims
\* the positions of the history list
HistoryIndex == 1..Len(recordings)

\* C1: once the elapsed counter has reached the cap the timer has forced the
\* stop: no recorder is recording, the status has left Active and no interval
\* is scheduled (stated as the original claim; the code violates it)
C1_CapForcesStop ==
  recordingTime = MaxDuration =>
    /\ ~isRecording
    /\ \A s \in Sessions : recorder[s] # "recording" /\ ~interval[s]

\* C2: the duration stored in every artifact of the history is the value the
\* elapsed counter had when the session that produced it was stopped (stated
\* as the original claim; the code violates it)
C2_DurationIsElapsedAtStop ==
  \A i \in HistoryIndex : recordings[i].duration = stoppedAt[recordings[i].session]

\* C3: at most one recorder is recording and at most one interval timer is
\* scheduled in every reachable state (stated as the original claim; the
\* code violates it)
C3_AtMostOneActive ==
  /\ Cardinality({s \in Sessions : recorder[s] = "recording"}) <= 1
  /\ Cardinality({s \in Sessions : interval[s]}) <= 1

\* C4: once the stop callback of a stopped session has run, whether
\* finalization succeeded or threw, the tracks that session acquired are
\* released and were released exactly once (stated as the original claim; the
\* code violates it)
C4_TracksReleasedOnce ==
  \A s \in Sessions :
    flush[s] \in {"done", "failed"} =>
      trackStops[s] = 1 /\ ~displayLive[s] /\ ~audioLive[s]

\* C5: the payload size of every artifact is the sum of the sizes of the
\* chunks that the recorder of its own session delivered (stated as the
\* original claim; the code violates it)
C5_PayloadIsSessionChunks ==
  \A i \in HistoryIndex : recordings[i].size = delivered[recordings[i].session]

\* C6: the elapsed counter is always in 0..180 and every artifact of the
\* history has a duration in 0..180
C6_DurationBounds ==
  /\ recordingTime \in 0..MaxDuration
  /\ \A i \in HistoryIndex : recordings[i].duration \in 0..MaxDuration

\* C6 witness: the counter went up to the cap and an artifact carries it
C6_Witness ==
  \E i \in HistoryIndex : recordings[i].duration = MaxDuration

\* the stop callback of attempt s completes finalization in this step
FinalizedIn(s) == flush[s] = "pending" /\ flush'[s] = "done"

\* C7 as stated: once every stopped session's callback has run, the history
\* has one entry per stopped session and its head is the artifact of the
\* session stopped last (the recorder mediaRecorderRef still holds)
C7_OnePerStoppedSession ==
  ( /\ \A s \in Sessions : flush[s] # "pending"
    /\ mediaRecorderRef # 0
    /\ recorder[mediaRecorderRef] = "inactive" ) =>
      /\ Len(recordings) = Cardinality({s \in Sessions : stoppedAt[s] # -1})
      /\ recordings[1].session = mediaRecorderRef

\* C7 amended: the history has exactly one entry per session whose
\* finalization succeeded; a step that finalizes session s puts the artifact
\* of s in front of the unchanged earlier entries, and no other step changes
\* the history
C7_PrependOnFinalize ==
  [][ /\ Len(recordings') = Cardinality({s \in Sessions : flush'[s] = "done"})
      /\ \A s \in Sessions :
           FinalizedIn(s) =>
             /\ recordings' # <<>>
             /\ Head(recordings').session = s
             /\ Tail(recordings') = recordings
      /\ (\A s \in Sessions : ~FinalizedIn(s)) => recordings' = recordings
    ]_vars

\* C7 witness: two sessions were finalized, the later one is in front
C7_Witness ==
  /\ Len(recordings) = 2
  /\ \A s \in Sessions : flush[s] = "done"
  /\ recordings[1].session # recordings[2].session

\* C8: a call of stopRecording made while isRecording is false changes
\* nothing: no artifact, history, current, counter and status unchanged, no
\* recorder stopped, no timer touched, no notification and no exception
C8_IdleStopIsNoOp ==
  [][ (StopRecording /\ ~isRecording) =>
        UNCHANGED <<reactState, refs, memoStopIsRec, phase, capturedTime,
                    capturedStopIsRec, recorder, flush, tracks, interval,
                    delivered, dataEvents, stoppedAt, toast, fault>>
    ]_vars

\* C8 witness: stopRecording was called while idle with the recorder of an
\* earlier, stopped session still in mediaRecorderRef
C8_Witness ==
  /\ ~isRecording
  /\ \E i \in 1..Len(idleStops) : idleStops[i] # 0 /\ recorder[idleStops[i]] = "inactive"

\* an acquisition request of attempt s is rejected in this step
AcquisitionFails(s) == GetDisplayMediaRejected(s) \/ GetUserMediaRejected(s)

\* C9: a step in which an acquisition request of an attempt is rejected
\* leaves the status, every recorder, every timer, the history and the
\* current artifact as they were, leaves the status Idle when no other
\* attempt has started a session, and shows the failure notification; and
\* an attempt that failed never has a recorder or a timer
C9_FailedAcquisitionStartsNothing ==
  [][ /\ \A s \in Sessions :
           AcquisitionFails(s) =>
             /\ isRecording' = isRecording
             /\ (\A r \in Sessions : phase'[r] # "started") => ~isRecording'
             /\ recorder' = recorder
             /\ mediaRecorderRef' = mediaRecorderRef
             /\ interval' = interval /\ timerRef' = timerRef
             /\ recordings' = recordings /\ currentRecording' = currentRecording
             /\ toast' = "failed"
      /\ \A s \in Sessions :
           phase'[s] = "failed" => recorder'[s] = "none" /\ ~interval'[s]
    ]_vars

\* C9 witness: the microphone was denied after the screen was granted
C9_Witness ==
  \E s \in Sessions :
    /\ phase[s] = "failed" /\ displayLive[s] /\ ~audioLive[s]
    /\ toast = "failed" /\ ~isRecording /\ recordings = <<>>

\* the artifacts of the history that attempt s produced
ArtifactsOf(s) == {i \in HistoryIndex : recordings[i].session = s}

\* C10 as stated: a stopped session with a non-empty chunk has exactly one
\* artifact in the history once its stop callback has run
C10_StoppedYieldsOne ==
  \A s \in Sessions :
    (flush[s] \in {"done", "failed"} /\ delivered[s] > 0) =>
      Cardinality(ArtifactsOf(s)) = 1

\* C10 amended: the stop callback of every stopped session eventually runs,
\* and at all times a session has exactly one artifact in the history if its
\* finalization succeeded and none otherwise (never two)
C10_OneArtifactPerFinalization ==
  /\ \A s \in Sessions : (flush[s] = "pending") ~> (flush[s] \in {"done", "failed"})
  /\ [](\A s \in Sessions :
          Cardinality(ArtifactsOf(s)) = IF flush[s] = "done" THEN 1 ELSE 0)

\* C10 witness: after an earlier session that was stopped by hand before the
\* cap and finalized, a session with a non-empty chunk was stopped by the
\* timer at the cap (the counter went on to 180, which a stop by hand at 179
\* with no other timer running does not do) and has its one artifact
C10_Witness ==
  \E s \in Sessions :
    /\ stoppedAt[s] = CapThreshold /\ recordingTime = CapValue
    /\ delivered[s] > 0
    /\ flush[s] = "done" /\ Cardinality(ArtifactsOf(s)) = 1
    /\ \A r \in Sessions \ {s} :
         phase[r] = "started" =>
           stoppedAt[r] \in 0..(CapThreshold - 1) /\ ~interval[r] /\ flush[r] = "done"

\* the number a run of decimal digits of str stands for
RECURSIVE NumberAt(_, _, _)
NumberAt(str, from, width) ==
  IF width = 0 THEN 0
  ELSE 10 * NumberAt(str, from, width - 1)
       + (CHOOSE d \in 0..9 : DigitChars[d + 1] = str[from + width - 1])

\* C11: the name downloadRecording uses is "screen-recording-", then the 19
\* characters YYYY-MM-DDTHH:MM:SS of the recording's timestamp (every field
\* reads back as the timestamp's, nothing of the milliseconds or the zone is
\* left), then ".webm"; for 2025-01-02T03:04:05 it is exactly
\* screen-recording-2025-01-02T03:04:05.webm
C11_DownloadFileName ==
  downloadName # <<>> =>
    /\ Len(downloadName) = 17 + 19 + 5
    /\ SubSeq(downloadName, 1, 17) = NamePrefix
    /\ SubSeq(downloadName, 37, 41) = NameSuffix
    /\ \A i \in {18, 19, 20, 21, 23, 24, 26, 27, 29, 30, 32, 33, 35, 36} :
         \E d \in 1..10 : downloadName[i] = DigitChars[d]
    /\ downloadName[22] = "-" /\ downloadName[25] = "-" /\ downloadName[28] = "T"
    /\ downloadName[31] = ":" /\ downloadName[34] = ":"
    /\ NumberAt(downloadName, 18, 4) = downloadTs.year
    /\ NumberAt(downloadName, 23, 2) = downloadTs.month
    /\ NumberAt(downloadName, 26, 2) = downloadTs.day
    /\ NumberAt(downloadName, 29, 2) = downloadTs.hour
    /\ NumberAt(downloadName, 32, 2) = downloadTs.minute
    /\ NumberAt(downloadName, 35, 2) = downloadTs.second
    /\ ( /\ downloadTs.year = 2025 /\ downloadTs.month = 1 /\ downloadTs.day = 2
         /\ downloadTs.hour = 3 /\ downloadTs.minute = 4 /\ downloadTs.second = 5 ) =>
           downloadName = NamePrefix
             \o <<"2", "0", "2", "5", "-", "0", "1", "-", "0", "2", "T",
                  "0", "3", ":", "0", "4", ":", "0", "5">>
             \o NameSuffix

\* C11 witness: the recording of 2025-01-02T03:04:05.007 was downloaded
C11_Witness ==
  /\ downloadTs = [year |-> 2025, month |-> 1, day |-> 2, hour |-> 3,
                   minute |-> 4, second |-> 5, ms |-> 7]
  /\ Len(downloadName) = 41
  /\ toast = "download"

\* C12: a start that failed leaves nothing behind: no capture track of that
\* attempt is live, and neither the stream handle nor the recorder handle is
\* that attempt's
C12_FailedStartAbortsCleanly ==
  \A s \in Sessions :
    phase[s] = "failed" =>
      /\ ~displayLive[s]
      /\ ~audioLive[s]
      /\ streamRef # s
      /\ mediaRecorderRef # s

\* C13: when the stop callback of an earlier session runs while a later
\* session is recording, it does not stop the later session's tracks, does not
\* clear the later session's stream handle, and does not touch the chunk
\* buffer the later session records into
C13_StaleFlushLeavesLaterSession ==
  [][\A s, r \in Sessions :
       ( /\ flush[s] = "pending" /\ flush'[s] # "pending"
         /\ r > s /\ recorder[r] = "recording" )
       => /\ displayLive'[r] = displayLive[r]
          /\ audioLive'[r] = audioLive[r]
          /\ (streamRef = r => streamRef' = r)
          /\ chunksRef' = chunksRef]_vars

\* C14: when finalization fails in the stop callback, no exception leaves the
\* callback uncaught, the user is shown a notification of the failure, history
\* and current recording stay as they were, and whether a start is offered
\* does not change
C14_FinalizeFailureHandled ==
  [][\A s \in Sessions :
       (flush[s] = "pending" /\ flush'[s] = "failed")
       => /\ fault' = fault
          /\ toast' = "finalize-failed"
          /\ recordings' = recordings
          /\ currentRecording' = currentRecording
          /\ isRecording' = isRecording]_vars

\* C15: every successful start sets the counter to 0; while a session is
\* recording exactly one timer is scheduled, and each of its ticks adds exactly
\* 1 to the counter until the cap is reached
C15_CounterResetAndUnitTicks ==
  [][/\ \A s \in Sessions :
          (phase[s] = "audio" /\ phase'[s] = "started") => recordingTime' = 0
     /\ (\A s \in Sessions : phase'[s] = phase[s]) =>
          \/ recordingTime' = recordingTime
          \/ recordingTime < CapValue /\ recordingTime' = recordingTime + 1
     /\ isRecording' => Cardinality({s \in Sessions : interval'[s]}) = 1]_vars

\* C16: the current recording is absent exactly when the history is empty,
\* and otherwise it is the first entry of the history
C16_CurrentIsHistoryHead ==
  /\ currentRecording = NoRecording <=> recordings = <<>>
  /\ recordings # <<>> => currentRecording = recordings[1]

\* C16 witness: two sessions were finalized, and the current recording is the
\* later one, ahead of the earlier one in the history
C16_Witness ==
  /\ Len(recordings) = 2
  /\ currentRecording = recordings[1]
  /\ recordings[1] # recordings[2]
  /\ \A s \in Sessions : flush[s] = "done"

\* C17: when an attempt completes its start, no other attempt has a recorder
\* that is recording or an interval that is scheduled, and the stream handle it
\* overwrites is not that of another attempt that is recording with live
\* tracks: of overlapping attempts at most one becomes the active session
C17_OverlappingStartsYieldOneSession ==
  [][\A s \in Sessions :
       (phase[s] = "audio" /\ phase'[s] = "started") =>
         \A r \in Sessions \ {s} :
           /\ recorder'[r] # "recording"
           /\ ~interval'[r]
           /\ ~( /\ streamRef = r
                 /\ recorder[r] = "recording"
                 /\ displayLive'[r] \/ audioLive'[r] )]_vars

\* C18: while no session is active the timer handle is empty and no interval
\* is scheduled, so no tick fires and the counter stays as it is until the
\* next successful start
C18_NoTimerWhileIdle ==
  ~isRecording =>
    /\ timerRef = 0
    /\ \A s \in Sessions : ~interval[s]

\* C19: once the component is torn down, no object URL it made is still
\* valid, no interval is scheduled and no capture track is live
C19_TeardownReleasesEverything ==
  ~mounted =>
    /\ ObjectUrls = {}
    /\ \A s \in Sessions : ~interval[s]
    /\ \A s \in Sessions : ~displayLive[s] /\ ~audioLive[s]

\* C20: a stopRecording call made while nothing is recording and an attempt
\* awaits a permission answer changes nothing of the attempts, makes no
\* recording and raises nothing; and when such an attempt later completes its
\* start, it is recording with its timer scheduled and the counter at 0
C20_StopWhilePendingIsNoOp ==
  [][/\ ( /\ ~isRecording
          /\ idleStops' # idleStops
          /\ \E s \in Sessions : phase[s] \in {"display", "audio"} )
        => /\ phase' = phase
           /\ recorder' = recorder
           /\ flush' = flush
           /\ recordings' = recordings
           /\ currentRecording' = currentRecording
           /\ fault' = fault
           /\ UNCHANGED <<isRecording, recordingTime, interval, refs, tracks>>
     /\ \A s \in pendingStops :
          (phase[s] = "audio" /\ phase'[s] = "started")
          => /\ isRecording'
             /\ recorder'[s] = "recording"
             /\ mediaRecorderRef' = s
             /\ interval'[s]
             /\ timerRef' = s
             /\ recordingTime' = 0]_vars

\* C20 witness: stopRecording was called while an attempt awaited its
\* permission answer, nothing was recorded or raised, and that attempt is now
\* recording with its timer scheduled from 0
C20_Witness ==
  \E s \in pendingStops :
    /\ phase[s] = "started"
    /\ recorder[s] = "recording"
    /\ interval[s]
    /\ isRecording
    /\ recordingTime = 0
    /\ recordings = <<>>
    /\ fault = "none"

====
